---- MODULE Spec2Model ----
(***************************************************************************)
(* The OTP verification handler POST /api/auth/verify-otp                  *)
(* (src/unnamed/part_002) over the emailOTP and clientUser tables, and the *)
(* handler POST /api/admin/create-admin                                    *)
(* (src/app/api/admin/create-admin/route.ts) over the user table.          *)
(* Every `await prisma...` is one atomic store call; between two of them   *)
(* other requests may run, so a request is a process with a position pc.   *)
(***************************************************************************)
EXTENDS Integers, Sequences, FiniteSets, TLC

VARIABLES
    otps,        \* emailOTP table: id -> row, for the rows that exist
    nextId,      \* next emailOTP id the store hands out
    users,       \* clientUser table: normalized email -> row
    now,         \* wall clock, in minutes
    pc,          \* position of each request in POST
    req,         \* the JSON body of each request: [email, otp]
    otpRecord,   \* POST's local otpRecord (row as read by findFirst)
    clientUser,  \* POST's local clientUser (row as read by findUnique)
    resp,        \* the response returned by each request
    calls,       \* number of store calls each request has made
    invalidFor,  \* history: emailOTP id -> 'Invalid OTP' responses for the row
    spent,       \* history: email -> id and hash of the row its last success
                 \* consumed; none if an OTP was issued for the email since
    nodeEnv,     \* process.env.NODE_ENV of the deployment
    changedUser, \* history: the request's user update changed a user row
    userTable,   \* user table: normalized email -> row
    secretToken, \* process.env.ADMIN_CREATE_SECRET
    admin        \* each create-admin request: position, header, body,
                 \* whether the body was parsed, store calls, response

vars == <<otps, nextId, users, now, pc, req, otpRecord, clientUser, resp,
          calls, invalidFor, spent, nodeEnv, changedUser, userTable,
          secretToken, admin>>

\* the state of create-admin, and the state of verify-otp
adminVars == <<userTable, secretToken, admin>>

otpVars == <<otps, nextId, users, now, pc, req, otpRecord, clientUser, resp,
             calls, invalidFor, spent, nodeEnv, changedUser>>

(********************************* bounds **********************************)
MaxOtps == 2
ConcOtps == 1
MaxTicks == 2
Procs == {"r1", "r2"}
Before(p, q) == p = "r1" /\ q = "r2"

(******************************* constants *********************************)
\* "Max 3 verification attempts"
MaxAttempts == 3
\* "OTP expires after 5 minutes"
OtpExpiryMinutes == 5

(***************************** JSON values *********************************)
\* A JSON value of a request body, as far as POST tells them apart:
\* undefined (key missing), a number, or a string of characters.
Undefined == [t |-> "undefined", s |-> <<>>]
Number == [t |-> "number", s |-> <<>>]
Str(chars) == [t |-> "string", s |-> chars]

Digits == {"0", "1", "2", "3", "4", "5", "6", "7", "8", "9"}

CodeA == <<"1", "2", "3", "4", "5", "6">>
CodeB == <<"0", "0", "0", "0", "0", "0">>
\* the codes the generator draws
IssuedCodes == {CodeA}

\* The request bodies tried: every way an email or an otp can be malformed,
\* and each registered or unregistered email with a right or a wrong code.
BadEmails == { Undefined, Number, Str(<<>>) }

GoodEmails == { Str(<<" ", "A", " ">>), Str(<<"b">>) }

BadOtps ==
    { Undefined, Number, Str(<<>>),
      Str(<<"1", "2", "3", "4", "5">>),
      Str(<<"1", "2", "a", "4", "5", "6">>),
      Str(<<"1", "2", "3", "4", "5", "6", "7">>) }

GoodOtps == { Str(CodeA), Str(CodeB) }

WellFormedBodies == { [email |-> e, otp |-> o] : e \in GoodEmails, o \in GoodOtps }

Bodies ==
    { [email |-> e, otp |-> Str(CodeA)] : e \in BadEmails }
    \cup { [email |-> Str(<<"b">>), otp |-> o] : o \in BadOtps }
    \cup { [email |-> Undefined, otp |-> Undefined] }
    \cup WellFormedBodies

\* Validation runs before the first store call and cannot interleave with
\* anything: concurrent runs try the well-formed bodies and one malformed.
ConcurrentBodies ==
    WellFormedBodies
    \cup { [email |-> Str(<<"b">>), otp |-> Str(<<"1", "2", "a", "4", "5", "6">>)] }

\* normalized emails that issuance uses as keys, and those registered
StoreEmails == { <<"a">>, <<"b">> }

\* "c" is a user no request is made for
Registered == { <<"a">>, <<"c">> }

UserId(e) ==
    CASE e = <<"a">> -> 1
      [] e = <<"c">> -> 2
      [] OTHER -> 3

\* JavaScript truthiness of a JSON value: undefined and "" are falsy; the
\* number stands for a non-zero number.
Truthy(v) == v.t = "number" \/ (v.t = "string" /\ v.s # <<>>)

\* the pattern without its end anchor: /^\d{6}/
StartsWithSixDigits(s) == Len(s) >= 6 /\ \A i \in 1..6 : s[i] \in Digits

\* /^\d{6}$/.test(otp)
IsSixDigits(s) == Len(s) = 6 /\ \A i \in 1..Len(s) : s[i] \in Digits

\* String.prototype.trim
RECURSIVE TrimLeft(_)
TrimLeft(s) ==
    IF s # <<>> /\ Head(s) = " " THEN TrimLeft(Tail(s)) ELSE s

RECURSIVE TrimRight(_)
TrimRight(s) ==
    IF s # <<>> /\ s[Len(s)] = " "
    THEN TrimRight(SubSeq(s, 1, Len(s) - 1)) ELSE s

Trim(s) == TrimRight(TrimLeft(s))

\* String.prototype.toLowerCase
LowerChar(c) ==
    CASE c = "A" -> "a"
      [] c = "B" -> "b"
      [] OTHER -> c

ToLowerCase(s) == [i \in 1..Len(s) |-> LowerChar(s[i])]

\* const normalizedEmail = email.trim().toLowerCase()
NormalizeEmail(s) == ToLowerCase(Trim(s))

(***************************** otpUtils ************************************)
\* hashOTP / verifyOTP / isOTPExpired live in @/lib/otpUtils, which is not
\* among the sources; they follow the specification (4.1, 4.2 step 4).
HashOTP(code) == <<"hash", code>>

VerifyOTP(code, hash) == HashOTP(code) = hash

IsOTPExpired(expiresAt) == now > expiresAt

(******************************* rows **************************************)
NoRecord ==
    [id |-> 0, email |-> <<>>, otpHash |-> <<>>, attempts |-> 0,
     verified |-> FALSE, createdAt |-> 0, expiresAt |-> 0]

NoSpent == [id |-> 0, otpHash |-> <<>>]

NoUser == [id |-> 0, email |-> <<>>, emailVerified |-> FALSE]

\* a key the response body does not carry
NoDetails == <<>>
NoCode == "none"

NoResp ==
    [status |-> 0, error |-> "none", remainingAttempts |-> -1,
     details |-> NoDetails, code |-> NoCode]

Reply(status, error) ==
    [status |-> status, error |-> error, remainingAttempts |-> -1,
     details |-> NoDetails, code |-> NoCode]

\* ids of the rows with this email
RowsOf(e) == { id \in DOMAIN otps : otps[id].email = e }

\* findFirst({ where: { email }, orderBy: { createdAt: 'desc' } }): a row
\* with the greatest createdAt; rows created at the same instant tie.
Latest(e) ==
    { id \in RowsOf(e) :
        \A other \in RowsOf(e) : otps[other].createdAt <= otps[id].createdAt }

\* a delete that removes nothing
KeepsRow(id) == otps

\* a delete that removes every row of the email of the row
WithoutRowsOfEmail(id) ==
    [i \in { j \in DOMAIN otps : otps[j].email # otps[id].email } |-> otps[i]]

\* emailOTP.delete({ where: { id } })
WithoutRow(id) == [i \in DOMAIN otps \ {id} |-> otps[i]]

\* the history of a deleted row is dropped with it
Forget(id) == [invalidFor EXCEPT ![id] = 0]

InFlight(p) == pc[p] \notin {"idle", "done", "crashed"}

\* No finished request is waiting to be forgotten.  Forgetting changes
\* nothing but the finished request's own locals, so it is taken first.
Settled == \A p \in Procs : pc[p] \notin {"done", "crashed"}

(************************* create-admin values *****************************)
AdminProcs == {"a1", "a2"}

\* request.headers.get('authorization') when the header is absent
Null == [t |-> "null", s |-> <<>>]

SecretA == <<"s", "1">>
SecretB == <<"s", "2">>

\* the values ADMIN_CREATE_SECRET may have: unset, empty, a secret
SecretTokens == { Undefined, Str(<<>>), Str(SecretA) }

\* `Bearer ${secretToken}`
BearerOf(secret) == <<"B", "e", "a", "r", "e", "r", " ">> \o secret

\* Authorization headers tried: none, the right one, one for another
\* secret, the bare secret, and the scheme in lower case
AuthHeaders ==
    { Null, Str(BearerOf(SecretA)), Str(BearerOf(SecretB)), Str(SecretA),
      Str(<<"b", "e", "a", "r", "e", "r", " ">> \o SecretA) }

\* the request body does not parse as JSON
InvalidJson == [t |-> "invalid", email |-> Undefined, password |-> Undefined]

JsonBody(email, password) ==
    [t |-> "object", email |-> email, password |-> password]

AdminBodies ==
    { InvalidJson,
      JsonBody(Undefined, Str(<<"p">>)),
      JsonBody(Str(<<"b">>), Undefined),
      JsonBody(Number, Str(<<"p">>)),
      JsonBody(Str(<<" ", "A", " ">>), Str(<<"p">>)),
      JsonBody(Str(<<"a">>), Str(<<"p">>)),
      JsonBody(Str(<<"b">>), Str(<<"p">>)) }

NoAdminResp == [status |-> 0, error |-> "none"]

AdminReply(status, error) == [status |-> status, error |-> error]

NoAdminRequest ==
    [pc |-> "idle", authHeader |-> Null, body |-> InvalidJson,
     parsed |-> FALSE, calls |-> 0, resp |-> NoAdminResp]

\* hashPassword(password)
HashPassword(password) == <<"hash", password>>

\* the row written by user.create
AdminUser(email, password) ==
    [email |-> email, name |-> "Admin User", role |-> "admin",
     passwordHash |-> HashPassword(password)]

Init ==
    /\ userTable =
         [e \in {<<"b">>} |->
            [email |-> e, name |-> "B", role |-> "user",
             passwordHash |-> HashPassword(<<"q">>)]]
    /\ secretToken = Undefined
    /\ admin = [p \in AdminProcs |-> NoAdminRequest]
    /\ otps = <<>>
    /\ nextId = 1
    /\ users = [e \in Registered |->
                 [id |-> UserId(e), email |-> e, emailVerified |-> FALSE]]
    /\ now = 0
    /\ pc = [p \in Procs |-> "idle"]
    /\ req = [p \in Procs |-> [email |-> Undefined, otp |-> Undefined]]
    /\ otpRecord = [p \in Procs |-> NoRecord]
    /\ clientUser = [p \in Procs |-> NoUser]
    /\ resp = [p \in Procs |-> NoResp]
    /\ calls = [p \in Procs |-> 0]
    /\ invalidFor = [id \in 1..MaxOtps |-> 0]
    /\ spent = [e \in StoreEmails |-> NoSpent]
    /\ nodeEnv = "production"
    /\ changedUser = [p \in Procs |-> FALSE]

\* time passes; the clock is observed once per expiry period
Tick ==
    /\ Settled
    /\ now < MaxTicks * OtpExpiryMinutes
    /\ now' = now + OtpExpiryMinutes
    /\ UNCHANGED <<otps, nextId, users, pc, req, otpRecord, clientUser, resp,
                   calls, invalidFor, spent, nodeEnv>>
    /\ UNCHANGED <<nodeEnv, changedUser, adminVars>>

(***************************** issuance ************************************)
\* Issue OTP (the send-otp route is not among the sources; specification
\* 4.2 "Issuance"): a new row with attempts=0, verified=false and
\* expiresAt = now + 5 min; older rows of the email are left in place.
IssueOTP(e, code) ==
    /\ Settled
    /\ nextId <= MaxOtps
    /\ otps' = [i \in DOMAIN otps \cup {nextId} |->
                  IF i = nextId
                  THEN [id |-> nextId, email |-> e, otpHash |-> HashOTP(code),
                        attempts |-> 0, verified |-> FALSE, createdAt |-> now,
                        expiresAt |-> now + OtpExpiryMinutes]
                  ELSE otps[i]]
    /\ nextId' = nextId + 1
    /\ spent' = [spent EXCEPT ![e] = NoSpent]
    /\ UNCHANGED <<users, now, pc, req, otpRecord, clientUser, resp, calls,
                   invalidFor>>
    /\ UNCHANGED <<nodeEnv, changedUser, adminVars>>

\* Registration (not among the sources; specification 3 "User Record"): a
\* user is created for an email that has none, with emailVerified = false.
Register(e) ==
    /\ \A p \in Procs : pc[p] = "idle"
    /\ e \notin DOMAIN users
    /\ users' = [x \in DOMAIN users \cup {e} |->
                   IF x = e
                   THEN [id |-> UserId(e), email |-> e, emailVerified |-> FALSE]
                   ELSE users[x]]
    /\ UNCHANGED <<otps, nextId, now, pc, req, otpRecord, clientUser, resp,
                   calls, invalidFor, spent, nodeEnv, changedUser>>
    /\ UNCHANGED adminVars

(*************************** POST /verify-otp ******************************)
\* 1. Validate input: the error of the first failing check, or "ok"
ValidateInput(email, otp) ==
    IF ~Truthy(email) \/ email.t # "string" THEN "Email is required"
    ELSE IF ~Truthy(otp) \/ otp.t # "string" THEN "OTP is required"
    ELSE IF ~IsSixDigits(otp.s) THEN "Invalid OTP format"
    ELSE "ok"

NormalizedEmail(p) == NormalizeEmail(req[p].email.s)

\* A request arrives: the body is parsed and validated.
Request(p, email, otp) ==
    /\ Settled
    /\ pc[p] = "idle"
    /\ req' = [req EXCEPT ![p] = [email |-> email, otp |-> otp]]
    /\ UNCHANGED <<otpRecord, clientUser, calls>>
    /\ IF ValidateInput(email, otp) = "ok"
       THEN /\ pc' = [pc EXCEPT ![p] = "findOtp"]
            /\ resp' = [resp EXCEPT ![p] = NoResp]
       ELSE /\ pc' = [pc EXCEPT ![p] = "done"]
            /\ resp' = [resp EXCEPT ![p] = Reply(400, ValidateInput(email, otp))]
    /\ UNCHANGED <<otps, nextId, users, now, invalidFor, spent>>
    /\ UNCHANGED <<nodeEnv, changedUser, adminVars>>

\* BranchOn with the ceiling test off by one (attempts > 3)
BranchOnOffByOne(row, otp) ==
    IF IsOTPExpired(row.expiresAt) THEN "deleteExpired"
    ELSE IF row.attempts > MaxAttempts THEN "deleteExhausted"
    ELSE IF ~VerifyOTP(otp, row.otpHash) THEN "incrementAttempts"
    ELSE "markVerified"

\* BranchOn with the code compared before the expiry test
BranchOnCompareFirst(row, otp) ==
    IF row.attempts < MaxAttempts /\ VerifyOTP(otp, row.otpHash)
    THEN "markVerified"
    ELSE IF IsOTPExpired(row.expiresAt) THEN "deleteExpired"
    ELSE IF row.attempts >= MaxAttempts THEN "deleteExhausted"
    ELSE "incrementAttempts"

\* BranchOn with the result of the comparison inverted
BranchOnInverted(row, otp) ==
    IF IsOTPExpired(row.expiresAt) THEN "deleteExpired"
    ELSE IF row.attempts >= MaxAttempts THEN "deleteExhausted"
    ELSE IF VerifyOTP(otp, row.otpHash) THEN "incrementAttempts"
    ELSE "markVerified"

\* BranchOn with the attempt ceiling tested before the expiry
BranchOnCeilingFirst(row, otp) ==
    IF row.attempts >= MaxAttempts THEN "deleteExhausted"
    ELSE IF IsOTPExpired(row.expiresAt) THEN "deleteExpired"
    ELSE IF ~VerifyOTP(otp, row.otpHash) THEN "incrementAttempts"
    ELSE "markVerified"

\* BranchOn refusing a row that is already marked verified
BranchOnUnverifiedOnly(row, otp) ==
    IF IsOTPExpired(row.expiresAt) THEN "deleteExpired"
    ELSE IF row.attempts >= MaxAttempts THEN "deleteExhausted"
    ELSE IF row.verified \/ ~VerifyOTP(otp, row.otpHash) THEN "incrementAttempts"
    ELSE "markVerified"

\* the branch POST takes on the row it has read (steps 3, 4, 5)
BranchOn(row, otp) ==
    IF IsOTPExpired(row.expiresAt) THEN "deleteExpired"
    ELSE IF row.attempts >= MaxAttempts THEN "deleteExhausted"
    ELSE IF ~VerifyOTP(otp, row.otpHash) THEN "incrementAttempts"
    ELSE "markVerified"

\* FindOtp telling an unregistered email apart when it finds no row
FindOtpRevealing(p) ==
    /\ Settled
    /\ pc[p] = "findOtp"
    /\ calls' = [calls EXCEPT ![p] = @ + 1]
    /\ IF Latest(NormalizedEmail(p)) = {}
       THEN /\ pc' = [pc EXCEPT ![p] = "done"]
            /\ resp' = [resp EXCEPT ![p] =
                          IF NormalizedEmail(p) \in DOMAIN users
                          THEN Reply(404, "OTP not found")
                          ELSE Reply(404, "User not found")]
            /\ UNCHANGED otpRecord
       ELSE \E id \in Latest(NormalizedEmail(p)) :
            /\ otpRecord' = [otpRecord EXCEPT ![p] = otps[id]]
            /\ pc' = [pc EXCEPT ![p] = BranchOn(otps[id], req[p].otp.s)]
            /\ UNCHANGED resp
    /\ UNCHANGED <<otps, nextId, users, now, req, clientUser, invalidFor,
                   spent>>
    /\ UNCHANGED <<nodeEnv, changedUser, adminVars>>

\* 2. Fetch OTP record by email, then steps 3-5 up to the next store call
FindOtp(p) ==
    /\ Settled
    /\ pc[p] = "findOtp"
    /\ calls' = [calls EXCEPT ![p] = @ + 1]
    /\ IF Latest(NormalizedEmail(p)) = {}
       THEN /\ pc' = [pc EXCEPT ![p] = "done"]
            /\ resp' = [resp EXCEPT ![p] = Reply(404, "OTP not found")]
            /\ UNCHANGED otpRecord
       ELSE \E id \in Latest(NormalizedEmail(p)) :
            /\ otpRecord' = [otpRecord EXCEPT ![p] = otps[id]]
            /\ pc' = [pc EXCEPT ![p] = BranchOn(otps[id], req[p].otp.s)]
            /\ UNCHANGED resp
    /\ UNCHANGED <<otps, nextId, users, now, req, clientUser, invalidFor,
                   spent>>
    /\ UNCHANGED <<nodeEnv, changedUser, adminVars>>

(***************************** catch block *********************************)
\* What a store call can throw: the driver's error code and its message, a
\* sequence of words (the handler only asks which words it includes).
NodeEnvs == {"production", "development"}

StoreErrors ==
    { [code |-> "P1001", message |-> <<"Can't", "reach", "database", "server">>],
      [code |-> "P1017",
       message |-> <<"Server", "has", "closed", "the", "connection">>],
      [code |-> "P2002", message |-> <<"Unique", "constraint", "failed">>],
      [code |-> "P2024",
       message |-> <<"Timed", "out", "fetching", "a", "new", "connection">>],
      [code |-> "P2010",
       message |-> <<"relation", "EmailOTP", "does", "not", "exist">>],
      [code |-> "P2034", message |-> <<"Transaction", "failed">>],
      [code |-> NoCode, message |-> <<"Invalid", "invocation">>] }

\* error.message?.includes(phrase), phrase a sequence of words
IncludesPhrase(message, phrase) ==
    \E i \in 1..Len(message) :
        /\ i + Len(phrase) - 1 <= Len(message)
        /\ SubSeq(message, i, i + Len(phrase) - 1) = phrase

\* error.message?.includes(word)
Includes(message, word) == IncludesPhrase(message, <<word>>)

\* process.env.NODE_ENV === 'development' ? value : undefined
DevelopmentOnly(value) ==
    IF nodeEnv = "development" THEN value ELSE NoDetails

\* `Database error (${error.code}). Please contact support.`
DatabaseErrorText(code) ==
    CASE code = "P2034" -> "Database error (P2034)"
      [] code = "P2010" -> "Database error (P2010)"
      [] code = "P2024" -> "Database error (P2024)"
      [] code = "P2025" -> "Database error (P2025)"
      [] OTHER -> "Database error"

\* userFriendlyError of the fallback answer
UserFriendlyError(err) ==
    IF \/ Includes(err.message, "table") \/ Includes(err.message, "relation")
       \/ IncludesPhrase(err.message, <<"does", "not", "exist">>)
    THEN "Database tables not found"
    ELSE IF Includes(err.message, "connection") \/ Includes(err.message, "timeout")
    THEN "Database connection failed. Please check your database configuration"
    ELSE IF err.code # NoCode THEN DatabaseErrorText(err.code)
    ELSE "Failed to verify OTP"

\* CatchBlock without its P2025 branch
CatchBlockWithoutP2025(err) ==
    IF \/ Includes(err.message, "DATABASE_URL")
       \/ Includes(err.message, "database")
       \/ IncludesPhrase(err.message,
                         <<"Failed", "to", "initialize", "database", "connection">>)
    THEN [Reply(503, "Database connection failed") EXCEPT
            !.details = DevelopmentOnly(err.message)]
    ELSE IF err.code \in {"P1001", "P1017"}
    THEN [Reply(503, "Database connection error") EXCEPT
            !.details = DevelopmentOnly(err.message)]
    ELSE IF err.code = "P2002"
    THEN Reply(400, "Database constraint violation")
    ELSE [Reply(500, UserFriendlyError(err)) EXCEPT
            !.details = err.message,
            !.code = IF err.code # NoCode THEN err.code ELSE "UNKNOWN"]

\* catch (error): the response for a thrown error
CatchBlock(err) ==
    IF \/ Includes(err.message, "DATABASE_URL")
       \/ Includes(err.message, "database")
       \/ IncludesPhrase(err.message,
                         <<"Failed", "to", "initialize", "database", "connection">>)
    THEN [Reply(503, "Database connection failed") EXCEPT
            !.details = DevelopmentOnly(err.message)]
    ELSE IF err.code \in {"P1001", "P1017"}
    THEN [Reply(503, "Database connection error") EXCEPT
            !.details = DevelopmentOnly(err.message)]
    ELSE IF err.code = "P2002"
    THEN Reply(400, "Database constraint violation")
    ELSE IF err.code = "P2025"
    THEN Reply(404, "OTP record not found")
    ELSE [Reply(500, UserFriendlyError(err)) EXCEPT
            !.details = err.message,
            !.code = IF err.code # NoCode THEN err.code ELSE "UNKNOWN"]

\* thrown by update and delete when no row has the id
RecordNotFound ==
    [code |-> "P2025",
     message |-> <<"Record", "to", "delete", "does", "not", "exist">>]

\* A delete or update of a row that no longer exists throws P2025, which
\* the catch block answers with 404 'OTP record not found'.
RecordGone(p) ==
    /\ pc' = [pc EXCEPT ![p] = "done"]
    /\ resp' = [resp EXCEPT ![p] = CatchBlock(RecordNotFound)]
    /\ UNCHANGED <<otps, invalidFor, spent>>

\* 3. Delete expired OTP record
DeleteExpired(p) ==
    /\ Settled
    /\ pc[p] = "deleteExpired"
    /\ calls' = [calls EXCEPT ![p] = @ + 1]
    /\ IF otpRecord[p].id \in DOMAIN otps
       THEN /\ otps' = WithoutRow(otpRecord[p].id)
            /\ pc' = [pc EXCEPT ![p] = "done"]
            /\ resp' = [resp EXCEPT ![p] = Reply(400, "OTP has expired")]
            /\ invalidFor' = Forget(otpRecord[p].id)
            /\ UNCHANGED spent
       ELSE RecordGone(p)
    /\ UNCHANGED <<nextId, users, now, req, otpRecord, clientUser>>
    /\ UNCHANGED <<nodeEnv, changedUser, adminVars>>

\* DeleteExhausted answering 429 (Too Many Requests)
DeleteExhaustedTooMany(p) ==
    /\ Settled
    /\ pc[p] = "deleteExhausted"
    /\ calls' = [calls EXCEPT ![p] = @ + 1]
    /\ IF otpRecord[p].id \in DOMAIN otps
       THEN /\ otps' = WithoutRow(otpRecord[p].id)
            /\ pc' = [pc EXCEPT ![p] = "done"]
            /\ resp' = [resp EXCEPT ![p] =
                          Reply(429, "Maximum verification attempts exceeded")]
            /\ invalidFor' = Forget(otpRecord[p].id)
            /\ UNCHANGED spent
       ELSE RecordGone(p)
    /\ UNCHANGED <<nextId, users, now, req, otpRecord, clientUser>>
    /\ UNCHANGED <<nodeEnv, changedUser, adminVars>>

\* 4. Delete OTP record after max attempts
DeleteExhausted(p) ==
    /\ Settled
    /\ pc[p] = "deleteExhausted"
    /\ calls' = [calls EXCEPT ![p] = @ + 1]
    /\ IF otpRecord[p].id \in DOMAIN otps
       THEN /\ otps' = WithoutRow(otpRecord[p].id)
            /\ pc' = [pc EXCEPT ![p] = "done"]
            /\ resp' = [resp EXCEPT ![p] =
                          Reply(400, "Maximum verification attempts exceeded")]
            /\ invalidFor' = Forget(otpRecord[p].id)
            /\ UNCHANGED spent
       ELSE RecordGone(p)
    /\ UNCHANGED <<nextId, users, now, req, otpRecord, clientUser>>
    /\ UNCHANGED <<nodeEnv, changedUser, adminVars>>

\* the remainder computed from the attempts before this one
RemainingBeforeIncrement(row) == MaxAttempts - row.attempts

\* const remainingAttempts = 3 - (otpRecord.attempts + 1), floored at 0
RemainingAttempts(row) ==
    IF MaxAttempts - (row.attempts + 1) > 0
    THEN MaxAttempts - (row.attempts + 1) ELSE 0

\* the value written by update({ data: { attempts: otpRecord.attempts + 1 } })
IncrementedAttempts(row) == row.attempts + 1

\* 5. wrong code: increment attempts, answer 'Invalid OTP'
IncrementAttempts(p) ==
    /\ Settled
    /\ pc[p] = "incrementAttempts"
    /\ calls' = [calls EXCEPT ![p] = @ + 1]
    /\ IF otpRecord[p].id \in DOMAIN otps
       THEN /\ otps' = [otps EXCEPT ![otpRecord[p].id].attempts =
                          IncrementedAttempts(otpRecord[p])]
            /\ pc' = [pc EXCEPT ![p] = "done"]
            /\ resp' = [resp EXCEPT ![p] =
                          [Reply(400, "Invalid OTP") EXCEPT !.remainingAttempts =
                             RemainingAttempts(otpRecord[p])]]
            /\ invalidFor' = [invalidFor EXCEPT ![otpRecord[p].id] = @ + 1]
            /\ UNCHANGED spent
       ELSE RecordGone(p)
    /\ UNCHANGED <<nextId, users, now, req, otpRecord, clientUser>>
    /\ UNCHANGED <<nodeEnv, changedUser, adminVars>>

\* step 6 without its write: the row is never marked verified
MarkVerifiedSkipped(p) ==
    /\ Settled
    /\ pc[p] = "markVerified"
    /\ calls' = [calls EXCEPT ![p] = @ + 1]
    /\ pc' = [pc EXCEPT ![p] = "findUser"]
    /\ UNCHANGED <<otps, nextId, users, now, req, otpRecord, clientUser, resp,
                   invalidFor, spent>>
    /\ UNCHANGED <<nodeEnv, changedUser, adminVars>>

\* 6. OTP is correct: mark OTP record as verified
MarkVerified(p) ==
    /\ Settled
    /\ pc[p] = "markVerified"
    /\ calls' = [calls EXCEPT ![p] = @ + 1]
    /\ IF otpRecord[p].id \in DOMAIN otps
       THEN /\ otps' = [otps EXCEPT ![otpRecord[p].id].verified = TRUE]
            /\ pc' = [pc EXCEPT ![p] = "findUser"]
            /\ UNCHANGED <<resp, invalidFor, spent>>
       ELSE RecordGone(p)
    /\ UNCHANGED <<nextId, users, now, req, otpRecord, clientUser>>
    /\ UNCHANGED <<nodeEnv, changedUser, adminVars>>

\* clientUser.findUnique({ where: { email: normalizedEmail } })
FindUser(p) ==
    /\ Settled
    /\ pc[p] = "findUser"
    /\ calls' = [calls EXCEPT ![p] = @ + 1]
    /\ IF NormalizedEmail(p) \in DOMAIN users
       THEN /\ clientUser' = [clientUser EXCEPT ![p] = users[NormalizedEmail(p)]]
            /\ pc' = [pc EXCEPT ![p] = "updateUser"]
            /\ UNCHANGED resp
       ELSE /\ pc' = [pc EXCEPT ![p] = "done"]
            /\ resp' = [resp EXCEPT ![p] = Reply(404, "User not found")]
            /\ UNCHANGED clientUser
    /\ UNCHANGED <<otps, nextId, users, now, req, otpRecord, invalidFor,
                   spent>>
    /\ UNCHANGED <<nodeEnv, changedUser, adminVars>>

\* VerifiedUser with the flag left as it was
UntouchedUser(row) == row

\* VerifiedUser flipping the flag instead of setting it
ToggledUser(row) == [row EXCEPT !.emailVerified = ~@]

\* the row written by clientUser.update({ data: { emailVerified: true } })
VerifiedUser(row) == [row EXCEPT !.emailVerified = TRUE]

\* the user update put off until after the delete: nothing written here
UpdateUserDeferred(p) ==
    /\ Settled
    /\ pc[p] = "updateUser"
    /\ calls' = [calls EXCEPT ![p] = @ + 1]
    /\ pc' = [pc EXCEPT ![p] = "deleteOtp"]
    /\ UNCHANGED <<otps, nextId, users, now, req, otpRecord, clientUser, resp,
                   invalidFor, spent>>
    /\ UNCHANGED <<nodeEnv, changedUser, adminVars>>

\* UpdateUser without its where clause: every user is set verified
UpdateUserAll(p) ==
    /\ Settled
    /\ pc[p] = "updateUser"
    /\ calls' = [calls EXCEPT ![p] = @ + 1]
    /\ users' = [e \in DOMAIN users |-> VerifiedUser(users[e])]
    /\ clientUser' = [clientUser EXCEPT ![p] =
                        VerifiedUser(users[clientUser[p].email])]
    /\ pc' = [pc EXCEPT ![p] = "deleteOtp"]
    /\ changedUser' = [changedUser EXCEPT ![p] = (users' # users)]
    /\ UNCHANGED <<otps, nextId, now, req, otpRecord, resp, invalidFor,
                   spent>>
    /\ UNCHANGED <<nodeEnv, adminVars>>

\* Update existing user
UpdateUser(p) ==
    /\ Settled
    /\ pc[p] = "updateUser"
    /\ calls' = [calls EXCEPT ![p] = @ + 1]
    /\ users' = [users EXCEPT ![clientUser[p].email] = VerifiedUser(@)]
    /\ clientUser' = [clientUser EXCEPT ![p] =
                        VerifiedUser(users[clientUser[p].email])]
    /\ pc' = [pc EXCEPT ![p] = "deleteOtp"]
    /\ changedUser' = [changedUser EXCEPT ![p] = (users' # users)]
    /\ UNCHANGED <<otps, nextId, now, req, otpRecord, resp, invalidFor,
                   spent>>
    /\ UNCHANGED <<nodeEnv, adminVars>>

\* DeleteOtp with a delete that does not throw when the row is gone
\* (deleteMany): success is answered either way
DeleteOtpLenient(p) ==
    /\ Settled
    /\ pc[p] = "deleteOtp"
    /\ calls' = [calls EXCEPT ![p] = @ + 1]
    /\ otps' = WithoutRow(otpRecord[p].id)
    /\ pc' = [pc EXCEPT ![p] = "done"]
    /\ resp' = [resp EXCEPT ![p] = Reply(200, "Email verified successfully")]
    /\ invalidFor' = Forget(otpRecord[p].id)
    /\ spent' = [spent EXCEPT ![otpRecord[p].email] =
                   [id |-> otpRecord[p].id, otpHash |-> otpRecord[p].otpHash]]
    /\ UNCHANGED <<nextId, users, now, req, otpRecord, clientUser>>
    /\ UNCHANGED <<nodeEnv, changedUser, adminVars>>

\* 7. Delete OTP record after successful verification; 8. return success
DeleteOtp(p) ==
    /\ Settled
    /\ pc[p] = "deleteOtp"
    /\ calls' = [calls EXCEPT ![p] = @ + 1]
    /\ IF otpRecord[p].id \in DOMAIN otps
       THEN /\ otps' = WithoutRow(otpRecord[p].id)
            /\ pc' = [pc EXCEPT ![p] = "done"]
            /\ resp' = [resp EXCEPT ![p] =
                          Reply(200, "Email verified successfully")]
            /\ invalidFor' = Forget(otpRecord[p].id)
            /\ spent' = [spent EXCEPT ![otpRecord[p].email] =
                           [id |-> otpRecord[p].id,
                            otpHash |-> otpRecord[p].otpHash]]
       ELSE RecordGone(p)
    /\ UNCHANGED <<nextId, users, now, req, otpRecord, clientUser>>
    /\ UNCHANGED <<nodeEnv, changedUser, adminVars>>

\* StoreFault with the failed call tried again instead of answered
StoreFaultRetried(p, err) ==
    /\ Settled
    /\ InFlight(p)
    /\ calls[p] < 8
    /\ calls' = [calls EXCEPT ![p] = @ + 1]
    /\ UNCHANGED <<otps, nextId, users, now, pc, req, otpRecord, clientUser,
                   resp, invalidFor, spent>>
    /\ UNCHANGED <<nodeEnv, changedUser, adminVars>>

\* A store call throws: nothing is written by it and the catch block answers.
StoreFault(p, err) ==
    /\ Settled
    /\ InFlight(p)
    /\ calls' = [calls EXCEPT ![p] = @ + 1]
    /\ pc' = [pc EXCEPT ![p] = "done"]
    /\ resp' = [resp EXCEPT ![p] = CatchBlock(err)]
    /\ UNCHANGED <<otps, nextId, users, now, req, otpRecord, clientUser,
                   invalidFor, spent>>
    /\ UNCHANGED <<nodeEnv, changedUser, adminVars>>

\* The service is deployed with another NODE_ENV while no request runs.
Deploy(mode) ==
    /\ \A p \in Procs : pc[p] = "idle"
    /\ mode # nodeEnv
    /\ nodeEnv' = mode
    /\ UNCHANGED <<otps, nextId, users, now, pc, req, otpRecord, clientUser,
                   resp, calls, invalidFor, spent, changedUser>>
    /\ UNCHANGED adminVars

\* The server process dies between two writes of the success path: no
\* further write, no response.  (A request that dies before its first write
\* leaves the store as if it had never run.)
Crash(p) ==
    /\ Settled
    /\ pc[p] \in {"findUser", "updateUser", "deleteOtp"}
    /\ pc' = [pc EXCEPT ![p] = "crashed"]
    /\ UNCHANGED <<otps, nextId, users, now, req, otpRecord, clientUser,
                   resp, calls, invalidFor, spent>>
    /\ UNCHANGED <<nodeEnv, changedUser, adminVars>>

\* The response has been sent (or the request died): its locals are gone.
Finish(p) ==
    /\ pc[p] \in {"done", "crashed"}
    /\ pc' = [pc EXCEPT ![p] = "idle"]
    /\ req' = [req EXCEPT ![p] = [email |-> Undefined, otp |-> Undefined]]
    /\ otpRecord' = [otpRecord EXCEPT ![p] = NoRecord]
    /\ clientUser' = [clientUser EXCEPT ![p] = NoUser]
    /\ resp' = [resp EXCEPT ![p] = NoResp]
    /\ calls' = [calls EXCEPT ![p] = 0]
    /\ changedUser' = [changedUser EXCEPT ![p] = FALSE]
    /\ UNCHANGED <<otps, nextId, users, now, invalidFor, spent>>
    /\ UNCHANGED <<nodeEnv, adminVars>>

\* Requests are interchangeable: a new one takes the first idle slot.
First(p) == \A q \in Procs : pc[q] = "idle" => ~Before(q, p)

Step(p) ==
    \/ FindOtp(p)
    \/ DeleteExpired(p)
    \/ DeleteExhausted(p)
    \/ IncrementAttempts(p)
    \/ MarkVerified(p)
    \/ FindUser(p)
    \/ UpdateUser(p)
    \/ DeleteOtp(p)

\* Requests interleave at every store call.
Next ==
    \/ Tick
    \/ \E e \in StoreEmails, code \in IssuedCodes :
         nextId <= ConcOtps /\ IssueOTP(e, code)
    \/ \E p \in Procs, body \in ConcurrentBodies :
         First(p) /\ Request(p, body.email, body.otp)
    \/ \E p \in Procs : Step(p)
    \/ \E p \in Procs : Finish(p)

Spec == Init /\ [][Next]_vars

\* One request at a time against a store that answers every call.
Quiet == \A p \in Procs : ~InFlight(p)

SeqNext ==
    \/ Quiet /\ Tick
    \/ Quiet /\ \E e \in StoreEmails, code \in IssuedCodes : IssueOTP(e, code)
    \/ Quiet /\ \E body \in ConcurrentBodies :
                  Request("r1", body.email, body.otp)
    \/ \E p \in Procs : Step(p)
    \/ \E p \in Procs : Finish(p)

SeqSpec == Init /\ [][SeqNext]_vars

\* One request at a time against a store whose calls may throw, in either
\* deployment mode.
FaultNext ==
    \/ SeqNext
    \/ \E p \in Procs, err \in StoreErrors : StoreFault(p, err)
    \/ \E mode \in NodeEnvs : Deploy(mode)

FaultSpec == Init /\ [][FaultNext]_vars

\* One request at a time, and users may register between requests.
RegisterNext ==
    \/ SeqNext
    \/ \E e \in StoreEmails : Register(e)

RegisterSpec == Init /\ [][RegisterNext]_vars

\* One request at a time, which may die between two store calls.
CrashNext ==
    \/ SeqNext
    \/ \E p \in Procs : Crash(p)

CrashSpec == Init /\ [][CrashNext]_vars

\* One request at a time, with every body: what validation lets through.
InputNext ==
    \/ Quiet /\ Tick
    \/ Quiet /\ \E e \in StoreEmails, code \in IssuedCodes :
                  nextId <= ConcOtps /\ IssueOTP(e, code)
    \/ Quiet /\ \E body \in Bodies : Request("r1", body.email, body.otp)
    \/ \E p \in Procs : Step(p)
    \/ \E p \in Procs : Finish(p)

InputSpec == Init /\ [][InputNext]_vars

\* One request at a time, every body, store calls that return or throw;
\* a store call that has been issued does eventually return or throw.
LiveNext ==
    \/ InputNext
    \/ \E p \in Procs, err \in StoreErrors : StoreFault(p, err)

LiveSpec ==
    /\ Init /\ [][LiveNext]_vars
    /\ \A p \in Procs :
          WF_vars(Step(p) \/ \E err \in StoreErrors : StoreFault(p, err))

(*********************** POST /admin/create-admin **************************)
\* The operator sets or unsets ADMIN_CREATE_SECRET while no request runs.
Configure(secret) ==
    /\ \A p \in AdminProcs : admin[p].pc = "idle"
    /\ secret # secretToken
    /\ secretToken' = secret
    /\ UNCHANGED <<userTable, admin>>
    /\ UNCHANGED otpVars

\* Authorized accepting any header of the Bearer scheme
AuthorizedByScheme(secret, authHeader) ==
    \/ ~Truthy(secret)
    \/ /\ authHeader.t = "string"
       /\ Len(authHeader.s) >= 7
       /\ SubSeq(authHeader.s, 1, 7) = BearerOf(<<>>)

\* if (secretToken) { if (authHeader !== `Bearer ${secretToken}`) ... }
Authorized(secret, authHeader) ==
    ~Truthy(secret) \/ authHeader = Str(BearerOf(secret.s))

\* the response POST gives before its first store call, or "none" if it
\* goes on to the store
EarlyReply(authHeader, body) ==
    IF ~Authorized(secretToken, authHeader) THEN AdminReply(401, "Unauthorized")
    ELSE IF body.t = "invalid"
    THEN AdminReply(400, "Invalid JSON in request body")
    ELSE IF ~Truthy(body.email) \/ ~Truthy(body.password)
    THEN AdminReply(400, "Email and password are required")
    ELSE IF body.email.t # "string"
    THEN AdminReply(500, "email.trim is not a function")
    ELSE NoAdminResp

\* A create-admin request arrives: token check, body, required fields.
AdminRequest(p, authHeader, body) ==
    /\ admin[p].pc = "idle"
    /\ admin' = [admin EXCEPT ![p] =
          [pc |-> IF EarlyReply(authHeader, body) = NoAdminResp
                  THEN "findUnique" ELSE "done",
           authHeader |-> authHeader,
           body |-> body,
           parsed |-> Authorized(secretToken, authHeader),
           calls |-> 0,
           resp |-> EarlyReply(authHeader, body)]]
    /\ UNCHANGED <<userTable, secretToken>>
    /\ UNCHANGED otpVars

\* const normalizedEmail = email.trim().toLowerCase()
AdminEmail(p) == NormalizeEmail(admin[p].body.email.s)

\* Check if user already exists
AdminFindUnique(p) ==
    /\ admin[p].pc = "findUnique"
    /\ admin' = [admin EXCEPT
          ![p].calls = @ + 1,
          ![p].pc = IF AdminEmail(p) \in DOMAIN userTable
                    THEN "done" ELSE "create",
          ![p].resp = IF AdminEmail(p) \in DOMAIN userTable
                      THEN AdminReply(400, "User already exists")
                      ELSE NoAdminResp]
    /\ UNCHANGED <<userTable, secretToken>>
    /\ UNCHANGED otpVars

\* AdminCreate on a table whose email is not unique: the row is written
\* whether or not the email has one
AdminCreateUnchecked(p) ==
    /\ admin[p].pc = "create"
    /\ userTable' =
          [e \in DOMAIN userTable \cup {AdminEmail(p)} |->
             IF e = AdminEmail(p)
             THEN AdminUser(e, admin[p].body.password.s)
             ELSE userTable[e]]
    /\ admin' = [admin EXCEPT
          ![p].calls = @ + 1,
          ![p].pc = "done",
          ![p].resp = AdminReply(200, "Admin user created successfully")]
    /\ UNCHANGED secretToken
    /\ UNCHANGED otpVars

\* Create admin user; email is unique, so a second row for it is refused
\* by the store (P2002) and the catch block answers 500.
AdminCreate(p) ==
    /\ admin[p].pc = "create"
    /\ IF AdminEmail(p) \in DOMAIN userTable
       THEN /\ admin' = [admin EXCEPT
                  ![p].calls = @ + 1,
                  ![p].pc = "done",
                  ![p].resp = AdminReply(500, "Unique constraint failed")]
            /\ UNCHANGED userTable
       ELSE /\ userTable' =
                  [e \in DOMAIN userTable \cup {AdminEmail(p)} |->
                     IF e = AdminEmail(p)
                     THEN AdminUser(e, admin[p].body.password.s)
                     ELSE userTable[e]]
            /\ admin' = [admin EXCEPT
                  ![p].calls = @ + 1,
                  ![p].pc = "done",
                  ![p].resp = AdminReply(200, "Admin user created successfully")]
    /\ UNCHANGED secretToken
    /\ UNCHANGED otpVars

\* The response has been sent.
AdminFinish(p) ==
    /\ admin[p].pc = "done"
    /\ admin' = [admin EXCEPT ![p] = NoAdminRequest]
    /\ UNCHANGED <<userTable, secretToken>>
    /\ UNCHANGED otpVars

\* create-admin requests interleave at every store call.
AdminNext ==
    \/ \E secret \in SecretTokens : Configure(secret)
    \/ \E p \in AdminProcs, authHeader \in AuthHeaders, body \in AdminBodies :
         AdminRequest(p, authHeader, body)
    \/ \E p \in AdminProcs : AdminFindUnique(p)
    \/ \E p \in AdminProcs : AdminCreate(p)
    \/ \E p \in AdminProcs : AdminFinish(p)

AdminSpec == Init /\ [][AdminNext]_vars

(***************************************************************************)
(* Claims.  A finished request still holds its body, the row it read and   *)
(* its response; the words below describe it.                              *)
(***************************************************************************)
Done(p) == pc[p] = "done"

\* the request read an OTP row
Found(p) == otpRecord[p].id # 0

\* the row the request read was past its expiry when it was read
FoundExpired(p) == Found(p) /\ now > otpRecord[p].expiresAt

\* the submitted code is the code of the row the request read
CodeMatches(p) == Found(p) /\ otpRecord[p].otpHash = HashOTP(req[p].otp.s)

\* the row the request read is still in the store
RowKept(p) == otpRecord[p].id \in DOMAIN otps

Success == Reply(200, "Email verified successfully")
ExpiredError == Reply(400, "OTP has expired")
ExhaustedError == Reply(400, "Maximum verification attempts exceeded")
NotFoundError == Reply(404, "OTP not found")
UserNotFoundError == Reply(404, "User not found")
InvalidCodeError(remaining) ==
    [Reply(400, "Invalid OTP") EXCEPT !.remainingAttempts = remaining]

\* C1: one request at a time, every wrong code on a live row raises its
\* attempts by one and keeps the row, so attempts count the 'Invalid OTP'
\* answers (0, 1, 2, 3); the request that reads attempts = 3 on an unexpired
\* row is answered ExhaustedError and deletes the row, whatever its code.
C1_ThreeWrongThenExhausted ==
    /\ \A id \in DOMAIN otps :
         otps[id].attempts = invalidFor[id] /\ otps[id].attempts <= 3
    /\ \A p \in Procs :
         Done(p) /\ resp[p].error = "Invalid OTP" =>
            RowKept(p) /\ otps[otpRecord[p].id].attempts = otpRecord[p].attempts + 1
    /\ \A p \in Procs :
         Done(p) /\ Found(p) /\ ~FoundExpired(p) /\ otpRecord[p].attempts = 3 =>
            resp[p] = ExhaustedError /\ ~RowKept(p)

\* a fourth request with the right code, answered ExhaustedError
C1_Witness ==
    \E p \in Procs :
        /\ Done(p) /\ CodeMatches(p) /\ ~FoundExpired(p)
        /\ otpRecord[p].attempts = 3
        /\ resp[p] = ExhaustedError /\ ~RowKept(p)

\* C2 as stated: a request that reads an expired row is answered
\* ExpiredError and afterwards the store holds no OTP row for that email.
C2_NoRowLeftForEmail ==
    \A p \in Procs :
        Done(p) /\ FoundExpired(p) =>
            resp[p] = ExpiredError /\ RowsOf(NormalizedEmail(p)) = {}

\* C2 amended: a request that reads an expired row is answered ExpiredError
\* whatever its code, and the row it read (the most recent of the email) is
\* deleted; only rows of that email created no later than it can remain.
C2_ExpiredRowDeleted ==
    \A p \in Procs :
        Done(p) /\ FoundExpired(p) =>
            /\ resp[p] = ExpiredError
            /\ ~RowKept(p)
            /\ \A id \in RowsOf(NormalizedEmail(p)) :
                 otps[id].createdAt <= otpRecord[p].createdAt

\* the right code submitted after expiry, answered ExpiredError
C2_Witness ==
    \E p \in Procs :
        Done(p) /\ FoundExpired(p) /\ CodeMatches(p)
        /\ resp[p] = ExpiredError /\ ~RowKept(p)

\* C3: the right code for an unexpired row with attempts < 3, for a
\* registered email, is answered 200, the user is verified and the row is
\* deleted.
C3_CorrectCodeSucceeds ==
    \A p \in Procs :
        ( /\ Done(p) /\ CodeMatches(p) /\ ~FoundExpired(p)
          /\ otpRecord[p].attempts < 3
          /\ NormalizedEmail(p) \in DOMAIN users )
        => /\ resp[p] = Success
           /\ users[NormalizedEmail(p)].emailVerified
           /\ ~RowKept(p)

\* a success on the third attempt (two wrong codes before it)
C3_Witness ==
    \E p \in Procs :
        /\ Done(p) /\ CodeMatches(p) /\ otpRecord[p].attempts = 2
        /\ resp[p] = Success
        /\ users[NormalizedEmail(p)].emailVerified /\ ~RowKept(p)

\* C4 as stated: the persisted attempts of a row are never below the number
\* of 'Invalid OTP' answers given for it.
C4_NoUnderCount ==
    \A id \in DOMAIN otps : otps[id].attempts >= invalidFor[id]

\* C5: a user row changes only by emailVerified going from false to true,
\* in the update of a request for that email whose code matched the row it
\* read; no step removes a user or clears the flag.
C5_VerifiedOnlyByMatchingCode ==
    [][ /\ DOMAIN users' = DOMAIN users
        /\ \A e \in DOMAIN users :
             /\ users[e].emailVerified => users'[e].emailVerified
             /\ users'[e] # users[e] =>
                  /\ ~users[e].emailVerified
                  /\ users'[e] = [users[e] EXCEPT !.emailVerified = TRUE]
                  /\ \E p \in Procs :
                       /\ pc[p] = "updateUser" /\ pc'[p] = "deleteOtp"
                       /\ NormalizedEmail(p) = e
                       /\ otpRecord[p].email = e
                       /\ CodeMatches(p) ]_vars

\* a request whose code matched has just verified its user
C5_Witness ==
    \E p \in Procs :
        /\ pc[p] = "deleteOtp" /\ CodeMatches(p)
        /\ users[NormalizedEmail(p)].emailVerified

\* the body is malformed in the sense of C6
Malformed(body) ==
    \/ body.email.t # "string"
    \/ body.otp.t # "string"
    \/ body.otp.s \notin [1..6 -> Digits]

ValidationErrors == {"Email is required", "OTP is required", "Invalid OTP format"}

\* C6: a request with a malformed body is answered 400 (validation) at once,
\* having made no store call, and the store is as it was.
C6_MalformedRejectedBeforeStore ==
    [][ \A p \in Procs :
          pc[p] = "idle" /\ pc'[p] # "idle" /\ Malformed(req'[p]) =>
             /\ pc'[p] = "done"
             /\ resp'[p].status = 400
             /\ resp'[p].error \in ValidationErrors
             /\ calls'[p] = 0
             /\ otps' = otps /\ users' = users /\ nextId' = nextId ]_vars

\* "12a456" rejected with no store call
C6_Witness ==
    \E p \in Procs :
        /\ Done(p)
        /\ req[p].otp = Str(<<"1", "2", "a", "4", "5", "6">>)
        /\ resp[p] = Reply(400, "Invalid OTP format")
        /\ calls[p] = 0

\* the request is a re-submission of the code that last succeeded for its
\* email, with no OTP issued for the email since
Resubmits(p) ==
    /\ NormalizedEmail(p) \in StoreEmails
    /\ spent[NormalizedEmail(p)].id # 0
    /\ spent[NormalizedEmail(p)].otpHash = HashOTP(req[p].otp.s)

\* C7 as stated: re-submitting the code that has just succeeded, with no
\* issuance in between, is answered NotFoundError.
C7_ResubmitNotFound ==
    [][ \A p \in Procs :
          pc[p] = "findOtp" /\ pc'[p] # "findOtp" /\ Resubmits(p) =>
             resp'[p] = NotFoundError ]_vars

\* C7 amended: the row a success consumed is never read again, and the
\* re-submission is answered NotFoundError when no other row of the email
\* is in the store (otherwise it is judged against the latest row left).
C7_SpentRowNeverReadAgain ==
    [][ \A p \in Procs :
          pc[p] = "findOtp" /\ pc'[p] # "findOtp" /\ Resubmits(p) =>
             /\ otpRecord'[p].id # spent[NormalizedEmail(p)].id
             /\ spent[NormalizedEmail(p)].id \notin DOMAIN otps
             /\ RowsOf(NormalizedEmail(p)) = {} =>
                  pc'[p] = "done" /\ resp'[p] = NotFoundError ]_vars

\* a re-submission answered NotFoundError
C7_Witness ==
    \E p \in Procs :
        Done(p) /\ Resubmits(p) /\ calls[p] = 1 /\ resp[p] = NotFoundError

\* C8: a wrong code on an unexpired row with attempts = a < 3 leaves the row
\* in the store with attempts = a + 1 and nothing else changed, and is
\* answered InvalidCodeError with remainingAttempts = 3 - (a + 1).
C8_WrongCodeCountsOnce ==
    \A p \in Procs :
        ( /\ Done(p) /\ Found(p) /\ ~FoundExpired(p)
          /\ otpRecord[p].attempts < 3 /\ ~CodeMatches(p) )
        => /\ RowKept(p)
           /\ otps[otpRecord[p].id] =
                [otpRecord[p] EXCEPT !.attempts = otpRecord[p].attempts + 1]
           /\ resp[p] = InvalidCodeError(3 - (otpRecord[p].attempts + 1))

\* the wrong code that reaches the ceiling: attempts 2 -> 3, 0 remaining
C8_Witness ==
    \E p \in Procs :
        /\ Done(p) /\ ~CodeMatches(p) /\ otpRecord[p].attempts = 2
        /\ RowKept(p) /\ otps[otpRecord[p].id].attempts = 3
        /\ resp[p] = InvalidCodeError(0)

\* the request matched its row but its email has no user
MatchedWithoutUser(p) ==
    /\ CodeMatches(p) /\ ~FoundExpired(p) /\ otpRecord[p].attempts < 3
    /\ NormalizedEmail(p) \notin DOMAIN users

CrashedBeforeDelete(p) == pc[p] = "crashed" /\ calls[p] = 4

\* C10: the success path writes in the order mark row verified, set
\* emailVerified, delete row.  So a row deleted by the success path has a
\* verified user, and between the last two writes (also after a crash
\* there) the user is verified and the verified row is still in the store.
C10_UserVerifiedBeforeRowDeleted ==
    /\ \A e \in StoreEmails :
         spent[e].id # 0 => e \in DOMAIN users /\ users[e].emailVerified
    /\ \A p \in Procs :
         Done(p) /\ resp[p] = Success =>
            ~RowKept(p) /\ users[NormalizedEmail(p)].emailVerified
    /\ \A p \in Procs :
         pc[p] = "updateUser" => RowKept(p) /\ otps[otpRecord[p].id].verified
    /\ \A p \in Procs :
         pc[p] = "deleteOtp" \/ CrashedBeforeDelete(p) =>
            /\ users[NormalizedEmail(p)].emailVerified
            /\ RowKept(p) /\ otps[otpRecord[p].id].verified

\* a crash between the user update and the delete
C10_Witness ==
    \E p \in Procs :
        /\ CrashedBeforeDelete(p)
        /\ users[NormalizedEmail(p)].emailVerified
        /\ RowKept(p) /\ otps[otpRecord[p].id].verified

\* the error kinds answered with 400 and with 404
BadRequestErrors ==
    ValidationErrors
    \cup {"OTP has expired", "Maximum verification attempts exceeded",
          "Invalid OTP"}

NotFoundErrors == {"OTP not found", "User not found"}

\* C11: every outcome has its fixed status: 200 for success, 400 for the
\* validation, expired, exhausted and invalid-code errors, 404 for
\* not-found and user-not-found; exactly the invalid-code response carries
\* remainingAttempts, an integer from 0 to 2.
C11_OutcomeHasFixedStatus ==
    \A p \in Procs :
        Done(p) =>
            /\ resp[p].error \in
                  {"Email verified successfully"} \cup BadRequestErrors
                  \cup NotFoundErrors
            /\ resp[p].error = "Email verified successfully" <=>
                  resp[p].status = 200
            /\ resp[p].error \in BadRequestErrors <=> resp[p].status = 400
            /\ resp[p].error \in NotFoundErrors <=> resp[p].status = 404
            /\ IF resp[p].error = "Invalid OTP"
               THEN resp[p].remainingAttempts \in 0..(MaxAttempts - 1)
               ELSE resp[p].remainingAttempts = -1

\* a fourth request answered 400 'Maximum verification attempts exceeded'
C11_Witness ==
    \E p \in Procs :
        /\ Done(p) /\ otpRecord[p].attempts = MaxAttempts
        /\ resp[p].error = "Maximum verification attempts exceeded"
        /\ resp[p].status = 400 /\ resp[p].remainingAttempts = -1

\* C12: when the store holds no OTP row for the normalized email, the
\* request is answered NotFoundError after its one lookup, whether or not a
\* user with that email exists (the answer is the same constant in both
\* stores), and neither table is changed.
C12_NotFoundHidesRegistration ==
    [][ \A p \in Procs :
          ( /\ pc[p] = "findOtp" /\ pc'[p] # "findOtp"
            /\ RowsOf(NormalizedEmail(p)) = {} )
          => /\ pc'[p] = "done"
             /\ resp'[p] = NotFoundError
             /\ calls'[p] = 1
             /\ clientUser'[p] = NoUser
             /\ otps' = otps /\ users' = users ]_vars

\* a registered email without an OTP row, answered as an unknown one is
C12_Witness ==
    \E p \in Procs :
        /\ Done(p) /\ ~Found(p) /\ calls[p] = 1
        /\ NormalizedEmail(p) \in DOMAIN users
        /\ RowsOf(NormalizedEmail(p)) = {}
        /\ resp[p] = NotFoundError

\* C13 as stated: outside development mode no response carries the raw
\* error of the store (the driver's message or its error code).
C13_NoRawErrorOutsideDevelopment ==
    \A p \in Procs :
        Done(p) /\ nodeEnv # "development" =>
            resp[p].details = NoDetails /\ resp[p].code = NoCode

\* C14: setting the flag is idempotent.  The update of a user who is
\* already verified changes nothing in the users table and the request goes
\* on to its delete and to the success response with the user still
\* verified; an update never touches the row of another user.
C14_VerifyingVerifiedUserIsNoOp ==
    [][ \A p \in Procs :
          /\ pc[p] = "updateUser" /\ pc'[p] # "updateUser" =>
                /\ \A e \in DOMAIN users \ {NormalizedEmail(p)} :
                      users'[e] = users[e]
                /\ users[NormalizedEmail(p)].emailVerified =>
                      /\ users' = users
                      /\ pc'[p] = "deleteOtp"
                      /\ clientUser'[p] = users[NormalizedEmail(p)]
          /\ pc[p] = "deleteOtp" /\ pc'[p] = "done" =>
                /\ resp'[p] = Success
                /\ users' = users
                /\ users[NormalizedEmail(p)].emailVerified ]_vars

\* a matching code for a user found already verified, about to be updated
C14_Witness ==
    \E p \in Procs :
        /\ pc[p] = "updateUser" /\ CodeMatches(p)
        /\ clientUser[p].emailVerified
        /\ users[NormalizedEmail(p)].emailVerified
        /\ \E e \in DOMAIN users : e # NormalizedEmail(p)

\* C15: the checks run in the order validation, lookup, expiry, attempt
\* ceiling, comparison.  A rejected body makes no store call; a row read
\* expired leads to ExpiredError even with attempts >= 3; an unexpired row
\* with attempts >= 3 leads to ExhaustedError; and the two branches chosen
\* by comparing the code are entered only for an unexpired row with
\* attempts < 3.
C15_ChecksInFixedOrder ==
    [][ \A p \in Procs :
          /\ pc[p] = "idle" /\ pc'[p] = "done" =>
                calls'[p] = 0 /\ resp'[p].error \in ValidationErrors
          /\ pc[p] = "findOtp" /\ pc'[p] # "findOtp" /\ otpRecord'[p].id # 0 =>
                /\ now > otpRecord'[p].expiresAt => pc'[p] = "deleteExpired"
                /\ ( /\ now <= otpRecord'[p].expiresAt
                     /\ otpRecord'[p].attempts >= 3 )
                   => pc'[p] = "deleteExhausted"
                /\ pc'[p] \in {"incrementAttempts", "markVerified"} =>
                      /\ now <= otpRecord'[p].expiresAt
                      /\ otpRecord'[p].attempts < 3
          /\ pc[p] = "deleteExpired" /\ pc'[p] = "done" =>
                resp'[p] = ExpiredError
          /\ pc[p] = "deleteExhausted" /\ pc'[p] = "done" =>
                resp'[p] = ExhaustedError ]_vars

\* a row both expired and exhausted, read by a request with the right
\* code: answered ExpiredError
C15_Witness ==
    \E p \in Procs :
        /\ Done(p) /\ FoundExpired(p) /\ otpRecord[p].attempts >= 3
        /\ CodeMatches(p)
        /\ resp[p] = ExpiredError

\* C16: a request reads one OTP row, a row with the latest createdAt among
\* those of its normalized email, and keeps that row as its only target;
\* each of its store calls leaves every other row (older rows of the email,
\* rows of other emails) in the store and unchanged, and adds no row.
C16_OnlyLatestRowTouched ==
    [][ \A p \in Procs :
          InFlight(p) /\ pc'[p] # pc[p] =>
             /\ DOMAIN otps' \subseteq DOMAIN otps
             /\ \A id \in DOMAIN otps \ {otpRecord'[p].id} :
                   id \in DOMAIN otps' /\ otps'[id] = otps[id]
             /\ pc[p] = "findOtp" => otps' = otps
             /\ pc[p] # "findOtp" => otpRecord'[p] = otpRecord[p]
             /\ otpRecord'[p].id # 0 =>
                   /\ otpRecord'[p].email = NormalizedEmail(p)
                   /\ \A id \in RowsOf(NormalizedEmail(p)) :
                         otps[id].createdAt <= otpRecord'[p].createdAt ]_vars

\* a request has deleted the latest row of its email and an older row of
\* the same email is still in the store
C16_Witness ==
    \E p \in Procs :
        /\ Done(p) /\ Found(p) /\ ~RowKept(p)
        /\ \E id \in RowsOf(NormalizedEmail(p)) :
              otps[id].createdAt < otpRecord[p].createdAt

\* the row the request read was already marked verified: a matching
\* request before it found no user and left it in the store
ReadVerifiedRow(p) == Found(p) /\ otpRecord[p].verified

\* C17 as stated: no request returns success on a row that an earlier
\* request left with verified = true because the user was absent.
C17_VerifiedRowNeverSucceeds ==
    \A p \in Procs :
        Done(p) /\ ReadVerifiedRow(p) => resp[p] # Success

\* C17 amended: the verified flag is not looked at.  A row left with
\* verified = true is judged like any other: a matching code on it, while
\* it is unexpired with attempts < 3, is answered UserNotFoundError (row
\* kept) as long as the email has no user, and success (user verified, row
\* deleted) once the email has one.
C17_VerifiedRowJudgedLikeAnyOther ==
    \A p \in Procs :
        ( /\ Done(p) /\ ReadVerifiedRow(p) /\ CodeMatches(p)
          /\ ~FoundExpired(p) /\ otpRecord[p].attempts < 3 )
        => IF NormalizedEmail(p) \in DOMAIN users
           THEN /\ resp[p] = Success
                /\ users[NormalizedEmail(p)].emailVerified
                /\ ~RowKept(p)
           ELSE /\ resp[p] = UserNotFoundError
                /\ RowKept(p) /\ otps[otpRecord[p].id].verified

\* the user registered after UserNotFoundError and the same code succeeded
\* on the row that had been left verified
C17_Witness ==
    \E p \in Procs :
        /\ Done(p) /\ ReadVerifiedRow(p) /\ CodeMatches(p)
        /\ resp[p] = Success /\ ~RowKept(p)

\* how far a request is: each position comes after those of lower rank
Rank(position) ==
    CASE position = "findOtp" -> 1
      [] position \in {"deleteExpired", "deleteExhausted", "incrementAttempts",
                       "markVerified"} -> 2
      [] position = "findUser" -> 3
      [] position = "updateUser" -> 4
      [] position = "deleteOtp" -> 5
      [] position = "done" -> 6
      [] OTHER -> 0

\* C18: every request terminates with exactly one response.  Each store
\* call, returning or throwing, moves the request strictly forward (no
\* loop, no retry), so it makes at most five; it has no response until it
\* is done and then exactly one, which does not change; and a request in
\* flight is eventually done.
C18_TerminatesWithOneResponse ==
    /\ [][ \A p \in Procs :
              /\ InFlight(p) /\ (pc'[p] # pc[p] \/ calls'[p] # calls[p]) =>
                    /\ Rank(pc'[p]) > Rank(pc[p])
                    /\ calls'[p] = calls[p] + 1 /\ calls'[p] <= 5
                    /\ resp[p] = NoResp
                    /\ pc'[p] = "done" <=> resp'[p] # NoResp
              /\ Done(p) /\ pc'[p] = "done" => resp'[p] = resp[p] ]_vars
    /\ \A p \in Procs : InFlight(p) ~> Done(p)

\* the fifth and last store call threw and the request answered 500
C18_Witness ==
    \E p \in Procs :
        Done(p) /\ calls[p] = 5 /\ resp[p].status = 500

RecordNotFoundError == Reply(404, "OTP record not found")

\* the request is about to write to the row it read
WritesOtp(p) ==
    pc[p] \in {"deleteExpired", "deleteExhausted", "incrementAttempts",
               "markVerified", "deleteOtp"}

\* C19: an update or delete of a row that a concurrent request has already
\* deleted is answered 404 'OTP record not found', whatever outcome the
\* request's own checks had selected, and writes nothing; the outcome of a
\* delete branch is answered only by the request whose delete removed the
\* row (so of two requests on one expired row only one answers
\* ExpiredError).
C19_WriteToDeletedRowNotFound ==
    [][ \A p \in Procs :
          /\ ( /\ WritesOtp(p) /\ pc'[p] # pc[p]
               /\ otpRecord[p].id \notin DOMAIN otps )
             => /\ pc'[p] = "done"
                /\ resp'[p] = RecordNotFoundError
                /\ otps' = otps /\ users' = users
          /\ ( /\ pc[p] \in {"deleteExpired", "deleteExhausted"}
               /\ pc'[p] = "done"
               /\ resp'[p] \in {ExpiredError, ExhaustedError} )
             => /\ otpRecord[p].id \in DOMAIN otps
                /\ otpRecord[p].id \notin DOMAIN otps' ]_vars

\* the second of two requests that read the same expired row
C19_Witness ==
    \E p \in Procs :
        /\ Done(p) /\ FoundExpired(p) /\ calls[p] = 2
        /\ resp[p] = RecordNotFoundError

\* C20: with ADMIN_CREATE_SECRET configured, a create-admin request whose
\* Authorization header is not exactly 'Bearer <secret>' is answered 401 at
\* once: the body is not parsed, no store call is made, and the user table
\* is neither read nor changed.
C20_UnauthorizedBeforeBodyAndStore ==
    [][ \A p \in AdminProcs :
          ( /\ admin[p].pc = "idle" /\ admin'[p].pc # "idle"
            /\ Truthy(secretToken)
            /\ admin'[p].authHeader # Str(BearerOf(secretToken.s)) )
          => /\ admin'[p].pc = "done"
             /\ admin'[p].resp = AdminReply(401, "Unauthorized")
             /\ ~admin'[p].parsed
             /\ admin'[p].calls = 0
             /\ userTable' = userTable ]_vars

\* a Bearer header for another secret, with a body that would have created
\* an admin: answered 401
C20_Witness ==
    \E p \in AdminProcs :
        /\ admin[p].pc = "done"
        /\ secretToken = Str(SecretA)
        /\ admin[p].authHeader = Str(BearerOf(SecretB))
        /\ admin[p].body = JsonBody(Str(<<"a">>), Str(<<"p">>))
        /\ admin[p].resp = AdminReply(401, "Unauthorized")
        /\ admin[p].calls = 0 /\ ~admin[p].parsed
        /\ <<"a">> \notin DOMAIN userTable

\* the create-admin request is at a store call
AdminInFlight(p) == admin[p].pc \in {"findUnique", "create"}

\* C21 as stated: a request that ends without creating a user, for an email
\* that has one, is answered 400 'User already exists' and the table is
\* as it was.
C21_ExistingEmailAnswered400 ==
    [][ \A p \in AdminProcs :
          ( /\ AdminInFlight(p) /\ admin'[p].pc = "done"
            /\ AdminEmail(p) \in DOMAIN userTable )
          => /\ admin'[p].resp = AdminReply(400, "User already exists")
             /\ userTable' = userTable ]_vars

\* C21 amended: there is at most one user per normalized email (each row is
\* stored under its own email) and no step changes or removes an existing
\* user.  A request whose lookup finds a user is answered 400 'User already
\* exists'; a request whose lookup found none but whose create meets a user
\* made meanwhile by a concurrent request is refused by the store and
\* answered 500; a user is added only by a create for an email that had
\* none, with role 'admin', and is answered 200.
C21_OneUserPerEmail ==
    /\ [](\A e \in DOMAIN userTable :
             userTable[e].email = e /\ NormalizeEmail(e) = e)
    /\ [][ /\ \A e \in DOMAIN userTable :
                 e \in DOMAIN userTable' /\ userTable'[e] = userTable[e]
           /\ \A p \in AdminProcs :
                 /\ ( /\ admin[p].pc = "findUnique" /\ admin'[p].pc # "findUnique"
                      /\ AdminEmail(p) \in DOMAIN userTable )
                    => /\ admin'[p].pc = "done"
                       /\ admin'[p].resp = AdminReply(400, "User already exists")
                 /\ ( /\ admin[p].pc = "create" /\ admin'[p].pc # "create"
                      /\ AdminEmail(p) \in DOMAIN userTable )
                    => /\ admin'[p].resp.status = 500
                       /\ userTable' = userTable
           /\ \A e \in DOMAIN userTable' \ DOMAIN userTable :
                 /\ DOMAIN userTable' = DOMAIN userTable \cup {e}
                 /\ userTable'[e].role = "admin"
                 /\ \E p \in AdminProcs :
                       /\ admin[p].pc = "create" /\ AdminEmail(p) = e
                       /\ admin'[p].pc = "done"
                       /\ admin'[p].resp.status = 200 ]_vars

\* the loser of two concurrent requests for one new email: its lookup
\* found no user, its create was refused, the winner's admin is stored
C21_Witness ==
    \E p \in AdminProcs :
        /\ admin[p].pc = "done" /\ admin[p].calls = 2
        /\ admin[p].resp.status = 500
        /\ AdminEmail(p) \in DOMAIN userTable
        /\ userTable[AdminEmail(p)].role = "admin"

\* C22: each OTP row gives at most one success.  Success is answered only
\* by the step of a request, at its final delete, that removes the row it
\* read from the store; a row once removed never comes back (ids are handed
\* out once); and a request whose final delete finds the row gone is
\* answered 404 'OTP record not found'.
C22_OneSuccessPerRow ==
    /\ [](\A id \in DOMAIN otps : id < nextId /\ otps[id].id = id)
    /\ [][ /\ nextId' >= nextId
           /\ DOMAIN otps' \subseteq DOMAIN otps \cup {nextId}
           /\ \A p \in Procs :
                 /\ resp'[p] = Success /\ resp[p] # Success =>
                       /\ pc[p] = "deleteOtp"
                       /\ otpRecord[p].id \in DOMAIN otps
                       /\ otpRecord[p].id \notin DOMAIN otps'
                       /\ \A q \in Procs \ {p} : resp'[q] # Success
                 /\ ( /\ pc[p] = "deleteOtp" /\ pc'[p] # "deleteOtp"
                      /\ otpRecord[p].id \notin DOMAIN otps )
                    => resp'[p] = RecordNotFoundError ]_vars

\* the second of two requests with the right code for one row: it made all
\* five store calls and its delete found the row gone
C22_Witness ==
    \E p \in Procs :
        /\ Done(p) /\ CodeMatches(p) /\ calls[p] = 5
        /\ ~RowKept(p)
        /\ resp[p] = RecordNotFoundError

\* C23 as stated: every stored OTP row has 0 <= attempts <= 3, and the
\* attempts of a row never decrease.
C23_AttemptsBoundedNeverDecrease ==
    /\ [](\A id \in DOMAIN otps :
             otps[id].attempts >= 0 /\ otps[id].attempts <= 3)
    /\ [][ \A id \in DOMAIN otps \cap DOMAIN otps' :
             otps'[id].attempts >= otps[id].attempts ]_vars

\* C24 as stated: a request that answers anything other than success has
\* left every user record unchanged, so a request whose update changed a
\* user record answers success.
C24_NonSuccessLeavesUsersUnchanged ==
    \A p \in Procs : Done(p) /\ resp[p] # Success => ~changedUser[p]

\* C24, amended: a user record is changed only by the user update of a
\* request whose code matched, and only by setting that user verified; a
\* request answering one of the handler's own 400 or 404 errors has changed
\* no user record; a request that changed a user record and does not answer
\* success made all five store calls and answers what the catch block makes
\* of the failure of its final delete, the user staying verified.
C24_UserVerifiedOnlyByMatchedUpdate ==
    /\ [](\A p \in Procs :
             /\ changedUser[p] =>
                   /\ CodeMatches(p)
                   /\ calls[p] >= 4
                   /\ pc[p] \in {"deleteOtp", "done"}
                   /\ users[NormalizedEmail(p)].emailVerified
             /\ ( /\ Done(p)
                  /\ resp[p].error \in BadRequestErrors \cup NotFoundErrors )
                => ~changedUser[p]
             /\ Done(p) /\ changedUser[p] /\ resp[p] # Success =>
                   /\ calls[p] = 5
                   /\ \/ resp[p] = RecordNotFoundError
                      \/ \E err \in StoreErrors : resp[p] = CatchBlock(err))
    /\ [][ \A e \in DOMAIN users \cap DOMAIN users' :
             users'[e] # users[e] =>
                /\ users'[e] = VerifiedUser(users[e])
                /\ \E p \in Procs :
                      /\ pc[p] = "updateUser"
                      /\ NormalizedEmail(p) = e
                      /\ changedUser'[p] ]_vars

\* a request set its user verified and its final delete then failed on the
\* store: it answers 503 and the user is verified
C24_Witness ==
    \E p \in Procs :
        /\ Done(p) /\ changedUser[p] /\ calls[p] = 5
        /\ resp[p].status = 503
        /\ users[NormalizedEmail(p)].emailVerified

====
